---- MODULE Spec2Model ----
(***************************************************************************)
(* Model of prompt_gitter: the dashboard's prompt editors and prompt list  *)
(* working against the GitHub contents API: metadata.json and the files    *)
(* of the prompts/ directory.                                              *)
(*                                                                         *)
(* Characters are code points (naturals); strings are sequences of code    *)
(* points.  A file's revision token (the API's "sha") is the git blob hash *)
(* of its content: equal contents have equal tokens.  It is modelled as    *)
(* the one-element sequence holding the content; <<>> is "no sha".         *)
(***************************************************************************)
EXTENDS Integers, Sequences, FiniteSets, Bags, TLC

\* ------------------------------------------------------------- bounds
Epoch == 11          \* the clock at page load (clock values keep the same number of digits)
MaxTicks == 1        \* the clock advances at most this many times in a run
MaxRecords == 3      \* Create is not started on an Index that already has this many records
MaxFaults == 1       \* at most this many injected network / HTTP failures in a run
MaxOps == 2          \* at most this many editor operations are started in a run
MaxInFlight == 2     \* at most this many handler invocations are in flight together
MaxFetches == 2      \* at most this many fetchPrompts invocations are in flight together
MaxSessions == 3      \* the session changes at most this many times in a run

\* ------------------------------------------------------------- strings
Dash == 45
ExtMd == <<46, 109, 100>>                \* ".md"

RECURSIVE Digits(_)
\* Number.prototype.toString / template-literal rendering of a non-negative integer
Digits(n) == IF n < 10 THEN <<48 + n>> ELSE Digits(n \div 10) \o <<48 + (n % 10)>>

\* String.prototype.toLowerCase on one code point (ASCII and Latin-1 letters)
ToLower(c) ==
    IF (c >= 65 /\ c <= 90) \/ (c >= 192 /\ c <= 222 /\ c # 215) THEN c + 32 ELSE c

LowerCase(s) == [i \in 1..Len(s) |-> ToLower(s[i])]

\* the regular expression class [a-z0-9]
IsAlnum(c) == (c >= 97 /\ c <= 122) \/ (c >= 48 /\ c <= 57)

RECURSIVE ReplaceRuns(_, _)
\* s.replace(/[^a-z0-9]+/g, '-'): each maximal run of other characters becomes one '-'
\* (inRun: the previous character was part of a run already replaced)
ReplaceRuns(s, inRun) ==
    IF s = <<>> THEN <<>>
    ELSE IF IsAlnum(Head(s)) THEN <<Head(s)>> \o ReplaceRuns(Tail(s), FALSE)
    ELSE IF inRun THEN ReplaceRuns(Tail(s), TRUE)
    ELSE <<Dash>> \o ReplaceRuns(Tail(s), TRUE)

RECURSIVE TrimLeft(_)
TrimLeft(s) == IF s # <<>> /\ Head(s) = Dash THEN TrimLeft(Tail(s)) ELSE s

RECURSIVE TrimRight(_)
TrimRight(s) ==
    IF s # <<>> /\ s[Len(s)] = Dash THEN TrimRight(SubSeq(s, 1, Len(s) - 1)) ELSE s

\* s.replace(/^-+|-+$/g, '')
TrimDashes(s) == TrimRight(TrimLeft(s))

\* title.toLowerCase().replace(/[^a-z0-9]+/g, '-').replace(/^-+|-+$/g, '')
BaseFilename(title) == TrimDashes(ReplaceRuns(LowerCase(title), FALSE))

\* String.prototype.startsWith
StartsWith(s, pre) == Len(pre) <= Len(s) /\ SubSeq(s, 1, Len(pre)) = pre

\* the derivation without the count of matching records
FilenameWithoutCount(base, clock, matches) ==
    base \o <<Dash>> \o Digits(clock) \o ExtMd

\* `${baseFilename}-${Date.now()}${suffix}.md`, suffix = the number of matching
\* records when there is one, else the empty string
MakeFilename(base, clock, matches) ==
    base \o <<Dash>> \o Digits(clock)
         \o (IF matches > 0 THEN Digits(matches) ELSE <<>>) \o ExtMd

\* btoa throws InvalidCharacterError on a code point above 0xFF
Latin1(s) == \A i \in 1..Len(s) : s[i] <= 255

\* unescape(encodeURIComponent(s)): the UTF-8 bytes of s, one character per byte
Utf8Char(c) ==
    IF c < 128 THEN <<c>>
    ELSE IF c < 2048 THEN <<192 + (c \div 64), 128 + (c % 64)>>
    ELSE <<224 + (c \div 4096), 128 + ((c \div 64) % 64), 128 + (c % 64)>>

RECURSIVE Utf8(_)
Utf8(s) == IF s = <<>> THEN <<>> ELSE Utf8Char(Head(s)) \o Utf8(Tail(s))


\* ------------------------------------------------------------- inputs
\* titles the form can submit: "A b!" and "a  b" (both normalise to "a-b"), "c", and
\* the euro sign (not Latin-1, empty base name)
TitleAb == <<65, 32, 98, 33>>
Titleab == <<97, 32, 32, 98>>
TitleC == <<99>>
TitleEuro == <<8364>>

\* prompt bodies the form can submit: "h" and "e-acute" (one non-ASCII character)
BodyH == <<104>>
BodyEacute == <<233>>

\* the other form fields, as the create form submits them and as an edit changes them
\* (description "d1", tag "x"; description "d2", tag "y")
CreateFields == [description |-> <<100, 49>>, tags |-> << <<120>> >>, provider |-> "openai",
                 model |-> "gpt-4-turbo"]
EditFields == [description |-> <<100, 50>>, tags |-> << <<121>> >>, provider |-> "anthropic",
               model |-> "claude-3-opus"]

VARIABLES
    index,           \* metadata.json in the store: [exists, prompts]
    files,           \* prompts/ in the store: filename -> bytes, for the files that exist
    now,             \* the clock read by Date.now() and new Date()
    faults,          \* injected failures so far
    started,         \* editor operations started so far
    scen,            \* what this run's user types and how much happens in the run
    removed,         \* the ids that Deletes have removed from the Index so far
    ed,              \* the handleSubmit / handleDelete invocations in flight (a bag of locals)
    last,            \* the invocation that returned last, as it returned
    ft,              \* the fetchPrompts invocations in flight (a bag of locals)
    prompts,         \* PromptsList: the in-memory collection
    isLoading,       \* PromptsList: isLoading
    listError,       \* PromptsList: error is set
    selectedPrompt,  \* PromptsList: selectedPrompt (NoPrompt when null)
    isCreateModalOpen, \* Dashboard: isCreateModalOpen
    showDeleteConfirm, \* ViewEditPromptModal: showDeleteConfirm of the mounted editor
    searchQuery,     \* PromptsList: searchQuery
    selectedTags,    \* PromptsList: selectedTags
    selectedProviders, \* PromptsList: selectedProviders
    sortField,       \* PromptsList: sortField
    sortOrder,       \* PromptsList: sortOrder
    createProvider,  \* CreatePromptModal: provider
    createModel,     \* CreatePromptModal: model
    editProvider,    \* ViewEditPromptModal: provider
    editModel,       \* ViewEditPromptModal: model
    repoStatus,      \* Dashboard: repoStatus
    errorMessage,    \* Dashboard: errorMessage
    repoPresent,     \* the store: the repository ai_prompts exists
    checks,          \* the checkRepository / createRepository invocations in flight (a bag)
    sessions,        \* how many times the session has changed
    answered,        \* the answer the Dashboard received last
    failedSince      \* a check or a creation has failed since the session changed last

\* the state of the list, its editors and the store behind them
editing == <<index, files, now, faults, started, scen, removed, ed, last, ft, prompts,
             isLoading, listError, selectedPrompt, isCreateModalOpen, showDeleteConfirm>>

\* the list's search, filter and sort controls
listView == <<searchQuery, selectedTags, selectedProviders, sortField, sortOrder>>

\* the provider and model selects of the two editors
forms == <<createProvider, createModel, editProvider, editModel>>

\* the Dashboard's repository status and the requests behind it
repo == <<repoStatus, errorMessage, repoPresent, checks, sessions, answered, failedSince>>

vars == <<editing, listView, forms, repo>>

NoPrompt == [id |-> <<>>]
NoSha == <<>>

\* ------------------------------------------------------------- the store
\* the blob hash the API returns as "sha"
ShaOf(content) == <<content>>

\* PUT metadata.json: accepted when the sha names the current blob (no sha for a new file)
PutIndexAccepted(sha) ==
    IF index.exists THEN sha = ShaOf(index.prompts) ELSE sha = NoSha

\* PUT prompts/<name>: accepted when the sha names the current blob (no sha for a new file)
PutFileAccepted(name, sha) ==
    IF name \in DOMAIN files THEN sha = ShaOf(files[name]) ELSE sha = NoSha

\* DELETE prompts/<name>: accepted when the file exists and the sha names its blob
DeleteFileAccepted(name, sha) ==
    name \in DOMAIN files /\ sha = ShaOf(files[name])

WithFile(name, bytes) ==
    [n \in DOMAIN files \cup {name} |-> IF n = name THEN bytes ELSE files[n]]
WithoutFile(name) == [n \in DOMAIN files \ {name} |-> files[n]]

\* what a request can meet: the store answers it, the network rejects it, or the
\* store answers with a server-side failure status without applying it
Outcomes == IF faults < scen.faults THEN {"ok", "net", "http"} ELSE {"ok"}
Charge(o) == faults' = IF o = "ok" THEN faults ELSE faults + 1

\* the values Date.now() can return at this step: the clock as it stands or advanced
ClockReads == {c \in {now, now + 1} : c <= Epoch + scen.ticks}

\* ------------------------------------------------------------- invocations
\* the locals of a handler invocation; Idle before any has returned.  Beside the
\* code's locals: n numbers the invocations in the order they start; shown: it belongs
\* to the mounted ViewEditPromptModal; old: the Index records with the prompt's id as
\* the invocation read them; failed: one of its requests failed; raced: another
\* invocation was in flight during its life; wrote: its Index write was accepted;
\* lost: its Index write was rejected as stale against an Update of the same id that
\* held the same token
Idle == [kind |-> "none", pc |-> "idle", n |-> 0, shown |-> FALSE, prompt |-> NoPrompt,
         title |-> <<>>, content |-> <<>>, fields |-> CreateFields, metadata |-> <<>>,
         sha |-> NoSha, promptIndex |-> 0, filename |-> <<>>, fileSha |-> NoSha,
         newId |-> <<>>, old |-> <<>>, error |-> FALSE, ok |-> FALSE, failed |-> FALSE,
         raced |-> FALSE, wrote |-> FALSE, lost |-> FALSE]

InFlight == BagToSet(ed)

\* bookkeeping at each answer: `failed` once a request of the invocation has failed
Req(s, fails) == [s EXCEPT !.failed = s.failed \/ fails]

\* a handler whose finally block does not run: isSaving stays set
ReturnStillSaving(s) == [s EXCEPT !.pc = "saving", !.metadata = <<>>, !.promptIndex = 0]

\* the invocation returns: its copy of the Index is dropped
Return(s) == [s EXCEPT !.pc = "done", !.metadata = <<>>, !.promptIndex = 0]

\* a handler is invoked with locals s: it is in flight beside the others
Launch(s) ==
    ed' = SetToBag({[t EXCEPT !.raced = TRUE] : t \in InFlight})
          (+) SetToBag({[s EXCEPT !.n = started + 1, !.raced = ed # EmptyBag]})

\* the Index records with this id, in Index order
RECURSIVE WithId(_, _)
WithId(metadata, id) ==
    IF metadata = <<>> THEN <<>>
    ELSE (IF Head(metadata).id = id THEN <<Head(metadata)>> ELSE <<>>)
         \o WithId(Tail(metadata), id)

\* catch: setError(...); finally: setIsSaving(false)
Throw(s) == [Return(s) EXCEPT !.error = TRUE]

\* the try block ran to its end: the success callbacks ran; finally: setIsSaving(false)
Succeed(s) == [Return(s) EXCEPT !.ok = TRUE]

\* the invocations in flight once the mounted ViewEditPromptModal is unmounted: its
\* isSaving is gone with it
Unmounted(bag) ==
    IF \E s \in BagToSet(bag) : s.shown
    THEN LET s == CHOOSE s \in BagToSet(bag) : s.shown
         IN (bag (-) SetToBag({s})) (+) SetToBag({[s EXCEPT !.shown = FALSE]})
    ELSE bag

\* invocation s goes on as t, or returns as t; `unmount`: the step unmounts the editor
Advance(s, t, unmount) ==
    LET rest == ed (-) SetToBag({s})
        bag == IF t.pc = "done" THEN rest ELSE rest (+) SetToBag({t})
    IN /\ ed' = IF unmount THEN Unmounted(bag) ELSE bag
       /\ last' = IF t.pc = "done" THEN [t EXCEPT !.shown = FALSE] ELSE last

\* p.filename.startsWith(`${baseFilename}-`) over the records other than `skipId`
Matches(metadata, base, skipId) ==
    Cardinality({i \in 1..Len(metadata) :
                    /\ metadata[i].id # skipId
                    /\ StartsWith(metadata[i].filename, base \o <<Dash>>)})

\* btoa(JSON.stringify(metadata, null, 2)) does not throw
IndexEncodes(metadata) == \A i \in 1..Len(metadata) : Latin1(metadata[i].title)


\* ------------------------------------------------------------- fetchPrompts
FetchStart == [pc |-> "getIndex", metadata |-> <<>>]

Copies(x, n) == IF n = 2 THEN SetToBag({x}) (+) SetToBag({x}) ELSE SetToBag({x})

\* n calls of fetchPrompts start: setIsLoading(true); setError(''), and the
\* first request of each is on its way
Refresh(n) ==
    /\ BagCardinality(ft) + n <= MaxFetches
    /\ ft' = ft (+) Copies(FetchStart, n)
    /\ isLoading' = TRUE
    /\ listError' = FALSE

\* PromptsList renders the list (or the empty-list placeholder), not the spinner or the error
ListShown == ~isLoading /\ ~listError

\* PromptsList renders ViewEditPromptModal
EditorMounted == ListShown /\ prompts # <<>> /\ selectedPrompt # NoPrompt

\* a showDeleteConfirm that no step of a handler clears
ConfirmKept(clear) == showDeleteConfirm' = (showDeleteConfirm /\ EditorMounted')

\* showDeleteConfirm after a step: the state of an editor is gone when it is unmounted,
\* a new one starts with useState(false); `clear`: the step runs setShowDeleteConfirm(false)
Confirm(clear) == showDeleteConfirm' = (showDeleteConfirm /\ ~clear /\ EditorMounted')

\* fetchPrompts: the answer to GET metadata.json
FetchGetIndex ==
    \E f \in BagToSet(ft) :
      /\ f.pc = "getIndex"
      /\ \E o \in Outcomes :
           /\ Charge(o)
           /\ IF o = "ok" /\ index.exists
              THEN IF index.prompts = <<>>
                   THEN \* Promise.all of no requests: setPrompts([]); finally
                        /\ prompts' = <<>>
                        /\ isLoading' = FALSE
                        /\ ft' = ft (-) SetToBag({f})
                        /\ UNCHANGED listError
                   ELSE /\ ft' = (ft (-) SetToBag({f}))
                                 (+) SetToBag({[pc |-> "getFiles", metadata |-> index.prompts]})
                        /\ UNCHANGED <<prompts, isLoading, listError>>
              ELSE \* !metadataResponse.ok, or fetch rejected: catch, finally
                   /\ listError' = TRUE
                   /\ isLoading' = FALSE
                   /\ ft' = ft (-) SetToBag({f})
                   /\ UNCHANGED prompts
      /\ UNCHANGED <<index, files, now, started, scen, removed, ed, last, selectedPrompt,
                     isCreateModalOpen>>
      /\ Confirm(FALSE)
      /\ UNCHANGED <<listView, forms, repo>>

\* { ...prompt, content: atob(contentData.content) }: the file's bytes, one character each
WithContent(r, bytes) ==
    [k \in DOMAIN r \cup {"content"} |-> IF k = "content" THEN bytes ELSE r[k]]

\* fetchPrompts: the answers to the GETs of prompts/<filename>, one per record, which
\* are issued together; Promise.all resolves: setPrompts(promptsWithContent), finally.
\* `lost` are the positions whose request is rejected or answered with a failure status
FetchGetFiles ==
    \E f \in BagToSet(ft) :
      /\ f.pc = "getFiles"
      /\ \E lost \in {{}} \cup (IF faults < scen.faults
                                THEN {{i} : i \in 1..Len(f.metadata)} ELSE {}) :
           /\ faults' = faults + Cardinality(lost)
           /\ prompts' = [i \in 1..Len(f.metadata) |->
                            IF i \notin lost /\ f.metadata[i].filename \in DOMAIN files
                            THEN WithContent(f.metadata[i], files[f.metadata[i].filename])
                            ELSE f.metadata[i]]
      /\ isLoading' = FALSE
      /\ ft' = ft (-) SetToBag({f})
      /\ UNCHANGED <<index, files, now, started, scen, removed, ed, last, listError,
                     selectedPrompt, isCreateModalOpen>>
      /\ Confirm(FALSE)
      /\ UNCHANGED <<listView, forms, repo>>

\* ------------------------------------------------------------- the list's handlers
\* onCreatePrompt: setIsCreateModalOpen(true)
OpenCreate ==
    /\ ListShown /\ ~EditorMounted /\ ~isCreateModalOpen
    /\ isCreateModalOpen' = TRUE
    /\ UNCHANGED <<index, files, now, faults, started, scen, removed, ed, last, ft, prompts,
                   isLoading, listError, selectedPrompt>>
    /\ Confirm(FALSE)
    /\ UNCHANGED <<listView, forms, repo>>

\* CreatePromptModal onClose: setIsCreateModalOpen(false)
CloseCreate ==
    /\ isCreateModalOpen
    /\ isCreateModalOpen' = FALSE
    /\ UNCHANGED <<index, files, now, faults, started, scen, removed, ed, last, ft, prompts,
                   isLoading, listError, selectedPrompt>>
    /\ Confirm(FALSE)
    /\ UNCHANGED <<listView, forms, repo>>

\* a card's title button: setSelectedPrompt(prompt)
SelectPrompt ==
    /\ ListShown /\ ~EditorMounted /\ ~isCreateModalOpen
    /\ \E i \in 1..Len(prompts) : selectedPrompt' = prompts[i]
    /\ UNCHANGED <<index, files, now, faults, started, scen, removed, ed, last, ft, prompts,
                   isLoading, listError, isCreateModalOpen>>
    /\ Confirm(FALSE)
    /\ UNCHANGED <<listView, forms, repo>>

\* ViewEditPromptModal onClose: setSelectedPrompt(null); fetchPrompts()
CloseEdit ==
    /\ EditorMounted
    /\ selectedPrompt' = NoPrompt
    /\ ed' = Unmounted(ed)
    /\ Refresh(1)
    /\ UNCHANGED <<index, files, now, faults, started, scen, removed, last, prompts,
                   isCreateModalOpen>>
    /\ Confirm(FALSE)
    /\ UNCHANGED <<listView, forms, repo>>


\* ------------------------------------------------------------- CreatePromptModal
\* CreatePromptModal's isSaving (the component stays mounted while it is closed)
CreateSaving == \E s \in InFlight : s.kind = "create"

\* handleSubmit up to its first await: setIsSaving(true); setError(''); GET metadata.json
StartCreate ==
    /\ isCreateModalOpen /\ ~CreateSaving
    /\ BagCardinality(ed) < MaxInFlight
    /\ started < scen.ops
    /\ Len(index.prompts) < MaxRecords
    /\ started' = started + 1
    /\ \E title \in scen.titles, body \in scen.bodies :
         Launch([Idle EXCEPT !.kind = "create", !.pc = "c_getIndex",
                             !.title = title, !.content = body])
    /\ UNCHANGED <<index, files, now, faults, scen, removed, last, ft, prompts, isLoading,
                   listError, selectedPrompt, isCreateModalOpen>>
    /\ Confirm(FALSE)
    /\ UNCHANGED <<listView, forms, repo>>

\* the record handleSubmit builds; `clock` is what Date.now() and new Date() return
NewPrompt(title, fields, metadata, clock) ==
    [id |-> Digits(clock),
     title |-> title,
     description |-> fields.description,
     tags |-> fields.tags,
     provider |-> fields.provider,
     model |-> fields.model,
     filename |-> MakeFilename(BaseFilename(title), clock,
                               Matches(metadata, BaseFilename(title), NoPrompt.id)),
     createdAt |-> clock,
     updatedAt |-> clock]

\* the answer to GET metadata.json, then the code up to the PUT of metadata.json
CreateGetIndex ==
    \E s0 \in InFlight, o \in Outcomes, clock \in ClockReads :
      /\ s0.kind = "create" /\ s0.pc = "c_getIndex"
      /\ Charge(o)
      /\ now' = IF o = "ok" THEN clock ELSE now
      /\ LET s == Req(s0, o # "ok")
             metadata == IF index.exists THEN index.prompts ELSE <<>>
         IN \E newPrompt \in {NewPrompt(s.title, s.fields, metadata, clock)} :
            LET pushed == Append(metadata, newPrompt)
            IN Advance(s0,
                    IF o # "ok" THEN Throw(s)        \* rejected, or atob(undefined) throws
                    ELSE IF ~IndexEncodes(pushed) THEN Throw(s)         \* btoa throws
                    ELSE [s EXCEPT !.pc = "c_putIndex",
                                   !.metadata = pushed,
                                   !.sha = IF index.exists THEN ShaOf(index.prompts)
                                           ELSE NoSha,
                                   !.filename = newPrompt.filename,
                                   !.newId = newPrompt.id],
                    FALSE)
      /\ UNCHANGED <<index, files, started, scen, removed, ft, prompts, isLoading, listError,
                     selectedPrompt, isCreateModalOpen>>
      /\ Confirm(FALSE)
      /\ UNCHANGED <<listView, forms, repo>>

\* the answer to PUT metadata.json: only a rejected fetch throws, the status is not read
CreatePutIndex ==
    \E s0 \in InFlight, o \in Outcomes :
      /\ s0.kind = "create" /\ s0.pc = "c_putIndex"
      /\ Charge(o)
      /\ LET applied == o = "ok" /\ PutIndexAccepted(s0.sha)
             s == [Req(s0, ~applied) EXCEPT !.wrote = applied]
         IN /\ index' = IF applied THEN [exists |-> TRUE, prompts |-> s.metadata]
                        ELSE index
            /\ Advance(s0, IF o = "net" THEN Throw(s) ELSE [s EXCEPT !.pc = "c_putFile"],
                       FALSE)
      /\ UNCHANGED <<files, now, started, scen, removed, ft, prompts, isLoading, listError,
                     selectedPrompt, isCreateModalOpen>>
      /\ Confirm(FALSE)
      /\ UNCHANGED <<listView, forms, repo>>

\* the answer to PUT prompts/<filename> (no sha), then onClose(); onPromptCreated()
CreatePutFile ==
    \E s0 \in InFlight, o \in Outcomes :
      /\ s0.kind = "create" /\ s0.pc = "c_putFile"
      /\ Charge(o)
      /\ LET applied == o = "ok" /\ PutFileAccepted(s0.filename, NoSha)
             s == Req(s0, ~applied)
         IN /\ files' = IF applied THEN WithFile(s.filename, Utf8(s.content)) ELSE files
            /\ IF o = "net"
               THEN /\ Advance(s0, Throw(s), FALSE)
                    /\ UNCHANGED <<ft, isLoading, listError, isCreateModalOpen>>
               ELSE /\ Advance(s0, Succeed(s), TRUE)
                    /\ isCreateModalOpen' = FALSE
                    /\ Refresh(1)
      /\ UNCHANGED <<index, now, started, scen, removed, prompts, selectedPrompt>>
      /\ Confirm(FALSE)
      /\ UNCHANGED <<listView, forms, repo>>


\* ------------------------------------------------------------- ViewEditPromptModal
\* an isSaving flag that is never set
NeverSaving == FALSE

\* the mounted ViewEditPromptModal's isSaving
EditSaving == \E s \in InFlight : s.shown

\* the fields of the prompt prop that the handlers read
Snapshot(r) == [id |-> r.id, title |-> r.title, filename |-> r.filename]

\* the texts the content field can hold at submit: one the user typed, or the
\* text the form was seeded with (prompt.content || '', submitted only if not empty)
ContentInputs(r) == scen.bodies \cup (IF "content" \in DOMAIN r THEN {r.content} ELSE {})

\* metadata.prompts.findIndex(p => p.id === prompt.id), 0 for -1
FindIndex(metadata, id) ==
    IF \E i \in 1..Len(metadata) : metadata[i].id = id
    THEN CHOOSE i \in 1..Len(metadata) :
            /\ metadata[i].id = id
            /\ \A j \in 1..(i - 1) : metadata[j].id # id
    ELSE 0

\* a merge that leaves the record's filename as it is
MergedKeepingFilename(old, s, clock) ==
    [old EXCEPT !.title = s.title,
                !.description = s.fields.description,
                !.tags = s.fields.tags,
                !.provider = s.fields.provider,
                !.model = s.fields.model,
                !.updatedAt = clock]

\* a merge that does not spread the stored record: createdAt is set anew
MergedAsNew(old, s, clock) ==
    [old EXCEPT !.title = s.title,
                !.description = s.fields.description,
                !.tags = s.fields.tags,
                !.provider = s.fields.provider,
                !.model = s.fields.model,
                !.filename = s.filename,
                !.createdAt = clock,
                !.updatedAt = clock]

\* { ...metadata.prompts[promptIndex], title, description, tags, provider, model,
\*   filename, updatedAt: new Date().toISOString() }
Merged(old, s, clock) ==
    [old EXCEPT !.title = s.title,
                !.description = s.fields.description,
                !.tags = s.fields.tags,
                !.provider = s.fields.provider,
                !.model = s.fields.model,
                !.filename = s.filename,
                !.updatedAt = clock]

\* metadata.prompts[promptIndex] = {...}, then btoa(JSON.stringify(metadata)) as the
\* argument of the PUT: the invocation goes on to the PUT, or btoa throws
PlanIndexWrite(s, clock) ==
    LET replaced == [s.metadata EXCEPT ![s.promptIndex] = Merged(@, s, clock)]
    IN IF IndexEncodes(replaced)
       THEN [s EXCEPT !.pc = "u_putIndex", !.metadata = replaced]
       ELSE Throw(s)

\* handleSubmit up to its first await
StartUpdate ==
    /\ EditorMounted /\ ~EditSaving
    /\ BagCardinality(ed) < MaxInFlight
    /\ started < scen.ops
    /\ started' = started + 1
    /\ \E title \in scen.titles \cup {selectedPrompt.title},
          body \in ContentInputs(selectedPrompt) :
         Launch([Idle EXCEPT !.kind = "update", !.pc = "u_getIndex", !.shown = TRUE,
                             !.prompt = Snapshot(selectedPrompt),
                             !.title = title, !.content = body, !.fields = EditFields])
    /\ UNCHANGED <<index, files, now, faults, scen, removed, last, ft, prompts, isLoading,
                   listError, selectedPrompt, isCreateModalOpen>>
    /\ Confirm(FALSE)
    /\ UNCHANGED <<listView, forms, repo>>

\* the answer to GET metadata.json, then the code up to the next request
UpdateGetIndex ==
    \E s0 \in InFlight, o \in Outcomes, clock \in ClockReads :
      /\ s0.kind = "update" /\ s0.pc = "u_getIndex"
      /\ Charge(o)
      /\ LET read == o = "ok" /\ index.exists
             s == Req(s0, ~read)
             at == FindIndex(index.prompts, s.prompt.id)
             base == BaseFilename(s.title)
             found == [s EXCEPT !.metadata = index.prompts,
                                !.sha = ShaOf(index.prompts),
                                !.promptIndex = at,
                                !.old = WithId(index.prompts, s.prompt.id)]
         IN IF ~read
            THEN \* rejected, or atob(undefined) throws
                 /\ Advance(s0, Throw(s), FALSE)
                 /\ UNCHANGED <<now, ft, isLoading, listError>>
            ELSE IF at = 0
            THEN \* nothing to replace: setIsEditing(false); onPromptUpdated()
                 /\ Advance(s0, Succeed(found), TRUE)
                 /\ Refresh(1)
                 /\ UNCHANGED now
            ELSE /\ now' = clock
                 /\ Advance(s0,
                            IF s.title # s.prompt.title
                            THEN [found EXCEPT
                                    !.pc = "u_getOld",
                                    !.filename = MakeFilename(base, clock,
                                                    Matches(index.prompts, base,
                                                            s.prompt.id))]
                            ELSE PlanIndexWrite([found EXCEPT
                                                   !.filename = s.prompt.filename], clock),
                            FALSE)
                 /\ UNCHANGED <<ft, isLoading, listError>>
      /\ UNCHANGED <<index, files, started, scen, removed, prompts, selectedPrompt,
                     isCreateModalOpen>>
      /\ Confirm(FALSE)
      /\ UNCHANGED <<listView, forms, repo>>

\* title changed: the answer to GET prompts/<prompt.filename>
UpdateGetOld ==
    \E s0 \in InFlight, o \in Outcomes :
      /\ s0.kind = "update" /\ s0.pc = "u_getOld"
      /\ Charge(o)
      /\ LET read == o = "ok" /\ s0.prompt.filename \in DOMAIN files
             s == Req(s0, ~read)
         IN Advance(s0,
                    IF o = "net" THEN Throw(s)
                    ELSE [s EXCEPT !.pc = "u_delOld",
                                   !.fileSha = IF read THEN ShaOf(files[s.prompt.filename])
                                               ELSE NoSha],
                    FALSE)
      /\ UNCHANGED <<index, files, now, started, scen, removed, ft, prompts, isLoading, listError,
                     selectedPrompt, isCreateModalOpen>>
      /\ Confirm(FALSE)
      /\ UNCHANGED <<listView, forms, repo>>

\* title changed: the answer to DELETE prompts/<prompt.filename>, then the code up to
\* the PUT of metadata.json
UpdateDeleteOld ==
    \E s0 \in InFlight, o \in Outcomes, clock \in ClockReads :
      /\ s0.kind = "update" /\ s0.pc = "u_delOld"
      /\ Charge(o)
      /\ now' = IF o = "net" THEN now ELSE clock
      /\ LET applied == o = "ok" /\ DeleteFileAccepted(s0.prompt.filename, s0.fileSha)
             s == Req(s0, ~applied)
         IN /\ files' = IF applied THEN WithoutFile(s.prompt.filename) ELSE files
            /\ Advance(s0, IF o = "net" THEN Throw(s) ELSE PlanIndexWrite(s, clock), FALSE)
      /\ UNCHANGED <<index, started, scen, removed, ft, prompts, isLoading, listError,
                     selectedPrompt, isCreateModalOpen>>
      /\ Confirm(FALSE)
      /\ UNCHANGED <<listView, forms, repo>>


\* an Update of the same id that read the Index under the token s holds has
\* had its Index write accepted
Rival(s) ==
    \E t \in InFlight \cup {last} :
        /\ t.kind = "update" /\ t.n # s.n
        /\ t.prompt.id = s.prompt.id
        /\ t.sha = s.sha
        /\ t.pc \in {"u_getSha", "u_putFile", "done"}
        /\ t.wrote

\* the answer to PUT metadata.json; the file's sha is fetched first when the
\* filename is the prompt's
UpdatePutIndex ==
    \E s0 \in InFlight, o \in Outcomes :
      /\ s0.kind = "update" /\ s0.pc = "u_putIndex"
      /\ Charge(o)
      /\ LET applied == o = "ok" /\ PutIndexAccepted(s0.sha)
             s == [Req(s0, ~applied) EXCEPT !.wrote = applied,
                                            !.lost = o = "ok" /\ ~applied /\ Rival(s0)]
         IN /\ index' = IF applied THEN [exists |-> TRUE, prompts |-> s.metadata]
                        ELSE index
            /\ Advance(s0,
                       IF o = "net" THEN Throw(s)
                       ELSE IF s.filename = s.prompt.filename
                       THEN [s EXCEPT !.pc = "u_getSha"]
                       ELSE [s EXCEPT !.pc = "u_putFile", !.fileSha = NoSha],
                       FALSE)
      /\ UNCHANGED <<files, now, started, scen, removed, ft, prompts, isLoading, listError,
                     selectedPrompt, isCreateModalOpen>>
      /\ Confirm(FALSE)
      /\ UNCHANGED <<listView, forms, repo>>

\* filename unchanged: the answer to GET prompts/<filename>
UpdateGetSha ==
    \E s0 \in InFlight, o \in Outcomes :
      /\ s0.kind = "update" /\ s0.pc = "u_getSha"
      /\ Charge(o)
      /\ LET read == o = "ok" /\ s0.filename \in DOMAIN files
             s == Req(s0, ~read)
         IN Advance(s0,
                    IF o = "net" THEN Throw(s)
                    ELSE [s EXCEPT !.pc = "u_putFile",
                                   !.fileSha = IF read THEN ShaOf(files[s.filename])
                                               ELSE NoSha],
                    FALSE)
      /\ UNCHANGED <<index, files, now, started, scen, removed, ft, prompts, isLoading, listError,
                     selectedPrompt, isCreateModalOpen>>
      /\ Confirm(FALSE)
      /\ UNCHANGED <<listView, forms, repo>>

\* the answer to PUT prompts/<filename>, then setIsEditing(false); onPromptUpdated()
UpdatePutFile ==
    \E s0 \in InFlight, o \in Outcomes :
      /\ s0.kind = "update" /\ s0.pc = "u_putFile"
      /\ Charge(o)
      /\ LET applied == o = "ok" /\ PutFileAccepted(s0.filename, s0.fileSha)
             s == Req(s0, ~applied)
         IN /\ files' = IF applied THEN WithFile(s.filename, Utf8(s.content)) ELSE files
            /\ IF o = "net"
               THEN /\ Advance(s0, Throw(s), FALSE)
                    /\ UNCHANGED <<ft, isLoading, listError>>
               ELSE /\ Advance(s0, Succeed(s), TRUE)
                    /\ Refresh(1)
      /\ UNCHANGED <<index, now, started, scen, removed, prompts, selectedPrompt,
                     isCreateModalOpen>>
      /\ Confirm(FALSE)
      /\ UNCHANGED <<listView, forms, repo>>

\* the edit form's "Delete Prompt" button: setShowDeleteConfirm(true)
RequestDelete ==
    /\ EditorMounted /\ ~showDeleteConfirm
    /\ started < scen.ops
    /\ showDeleteConfirm' = TRUE
    /\ UNCHANGED <<index, files, now, faults, started, scen, removed, ed, last, ft, prompts,
                   isLoading, listError, selectedPrompt, isCreateModalOpen>>
    /\ UNCHANGED <<listView, forms, repo>>

\* the confirmation dialog's Cancel button and backdrop: setShowDeleteConfirm(false)
CancelDelete ==
    /\ EditorMounted /\ showDeleteConfirm
    /\ showDeleteConfirm' = FALSE
    /\ UNCHANGED <<index, files, now, faults, started, scen, removed, ed, last, ft, prompts,
                   isLoading, listError, selectedPrompt, isCreateModalOpen>>
    /\ UNCHANGED <<listView, forms, repo>>

\* the confirmation dialog's Delete button (rendered when showDeleteConfirm, disabled
\* while isSaving): handleDelete up to its first await
StartDelete ==
    /\ EditorMounted /\ showDeleteConfirm /\ ~EditSaving
    /\ BagCardinality(ed) < MaxInFlight
    /\ started < scen.ops
    /\ started' = started + 1
    /\ Launch([Idle EXCEPT !.kind = "delete", !.pc = "d_getIndex", !.shown = TRUE,
                           !.prompt = Snapshot(selectedPrompt)])
    /\ UNCHANGED <<index, files, now, faults, scen, removed, last, ft, prompts, isLoading,
                   listError, selectedPrompt, isCreateModalOpen>>
    /\ Confirm(FALSE)
    /\ UNCHANGED <<listView, forms, repo>>

\* a filter that drops the first record whatever its id
WithoutFirst(metadata, id) == IF metadata = <<>> THEN <<>> ELSE Tail(metadata)

\* metadata.prompts.filter(p => p.id !== prompt.id)
RECURSIVE WithoutId(_, _)
WithoutId(metadata, id) ==
    IF metadata = <<>> THEN <<>>
    ELSE (IF Head(metadata).id # id THEN <<Head(metadata)>> ELSE <<>>)
         \o WithoutId(Tail(metadata), id)

\* the answer to GET metadata.json, then the filter
DeleteGetIndex ==
    \E s0 \in InFlight, o \in Outcomes :
      /\ s0.kind = "delete" /\ s0.pc = "d_getIndex"
      /\ Charge(o)
      /\ LET read == o = "ok" /\ index.exists
             s == Req(s0, ~read)
         IN Advance(s0,
                    IF ~read THEN Throw(s)
                    ELSE [s EXCEPT !.pc = "d_putIndex",
                                   !.metadata = WithoutId(index.prompts, s.prompt.id),
                                   !.sha = ShaOf(index.prompts),
                                   !.old = WithId(index.prompts, s.prompt.id)],
                    FALSE)
      /\ UNCHANGED <<index, files, now, started, scen, removed, ft, prompts, isLoading, listError,
                     selectedPrompt, isCreateModalOpen>>
      /\ Confirm(s0.shown /\ last' # last)
      /\ UNCHANGED <<listView, forms, repo>>

\* the answer to PUT metadata.json
DeletePutIndex ==
    \E s0 \in InFlight, o \in Outcomes :
      /\ s0.kind = "delete" /\ s0.pc = "d_putIndex"
      /\ Charge(o)
      /\ LET applied == o = "ok" /\ PutIndexAccepted(s0.sha)
             s == [Req(s0, ~applied) EXCEPT !.wrote = applied]
         IN /\ index' = IF applied THEN [exists |-> TRUE, prompts |-> s.metadata]
                        ELSE index
            /\ removed' = IF applied /\ s.old # <<>> THEN removed \cup {s.prompt.id}
                          ELSE removed
            /\ Advance(s0, IF o = "net" THEN Throw(s) ELSE [s EXCEPT !.pc = "d_getFile"],
                       FALSE)
      /\ UNCHANGED <<files, now, started, scen, ft, prompts, isLoading, listError,
                     selectedPrompt, isCreateModalOpen>>
      /\ Confirm(s0.shown /\ last' # last)
      /\ UNCHANGED <<listView, forms, repo>>

\* the answer to GET prompts/<prompt.filename>
DeleteGetFile ==
    \E s0 \in InFlight, o \in Outcomes :
      /\ s0.kind = "delete" /\ s0.pc = "d_getFile"
      /\ Charge(o)
      /\ LET read == o = "ok" /\ s0.prompt.filename \in DOMAIN files
             s == Req(s0, ~read)
         IN Advance(s0,
                    IF o = "net" THEN Throw(s)
                    ELSE [s EXCEPT !.pc = "d_delFile",
                                   !.fileSha = IF read THEN ShaOf(files[s.prompt.filename])
                                               ELSE NoSha],
                    FALSE)
      /\ UNCHANGED <<index, files, now, started, scen, removed, ft, prompts, isLoading, listError,
                     selectedPrompt, isCreateModalOpen>>
      /\ Confirm(s0.shown /\ last' # last)
      /\ UNCHANGED <<listView, forms, repo>>

\* the answer to DELETE prompts/<prompt.filename>, then onClose(); onPromptUpdated():
\* the list's onClose clears selectedPrompt and fetches, onPromptUpdated fetches again
DeleteDeleteFile ==
    \E s0 \in InFlight, o \in Outcomes :
      /\ s0.kind = "delete" /\ s0.pc = "d_delFile"
      /\ Charge(o)
      /\ LET applied == o = "ok" /\ DeleteFileAccepted(s0.prompt.filename, s0.fileSha)
             s == Req(s0, ~applied)
         IN /\ files' = IF applied THEN WithoutFile(s.prompt.filename) ELSE files
            /\ IF o = "net"
               THEN /\ Advance(s0, Throw(s), FALSE)
                    /\ UNCHANGED <<ft, isLoading, listError, selectedPrompt>>
               ELSE /\ Advance(s0, Succeed(s), TRUE)
                    /\ selectedPrompt' = NoPrompt
                    /\ Refresh(2)
      /\ UNCHANGED <<index, now, started, scen, removed, prompts, isCreateModalOpen>>
      /\ Confirm(s0.shown /\ last' # last)
      /\ UNCHANGED <<listView, forms, repo>>

\* ------------------------------------------------------------- the list's controls
\* useState('') / ([]) / ([]) / ('updatedAt') / ('desc')
ListDefaults ==
    /\ searchQuery = <<>>
    /\ selectedTags = <<>>
    /\ selectedProviders = <<>>
    /\ sortField = "updatedAt"
    /\ sortOrder = "desc"

\* the elements of an array
Range(seq) == {seq[i] : i \in 1..Len(seq)}

\* String.prototype.includes
Includes(s, sub) ==
    \E i \in 0..(Len(s) - Len(sub)) : SubSeq(s, i + 1, i + Len(sub)) = sub

\* the first filter: searchQuery === '' || title, description or some tag, lower-cased,
\* includes the lower-cased query
SearchPasses(prompt) ==
    \/ searchQuery = <<>>
    \/ Includes(LowerCase(prompt.title), LowerCase(searchQuery))
    \/ Includes(LowerCase(prompt.description), LowerCase(searchQuery))
    \/ \E i \in 1..Len(prompt.tags) :
           Includes(LowerCase(prompt.tags[i]), LowerCase(searchQuery))

\* a tag filter that asks for every selected tag
TagPassesAll(prompt) ==
    \/ Len(selectedTags) = 0
    \/ \A i \in 1..Len(selectedTags) : selectedTags[i] \in Range(prompt.tags)

\* the second filter: selectedTags.length === 0 || selectedTags.some(tag => prompt.tags.includes(tag))
TagPasses(prompt) ==
    \/ Len(selectedTags) = 0
    \/ \E i \in 1..Len(selectedTags) : selectedTags[i] \in Range(prompt.tags)

\* the third filter: selectedProviders.length === 0 || selectedProviders.includes(prompt.provider)
ProviderPasses(prompt) ==
    \/ Len(selectedProviders) = 0
    \/ \E i \in 1..Len(selectedProviders) : selectedProviders[i] = prompt.provider

\* prompts.filter(...).filter(...).filter(...)
Filtered ==
    SelectSeq(SelectSeq(SelectSeq(prompts, SearchPasses), TagPasses), ProviderPasses)

\* the sign of a number
Sign(n) == IF n < 0 THEN -1 ELSE IF n > 0 THEN 1 ELSE 0

\* the primary collation weight of a character: punctuation and space, then digits,
\* then letters, a letter and its capital alike
Weight(c) ==
    IF (c >= 65 /\ c <= 90) \/ (c >= 97 /\ c <= 122) THEN 1000 + ToLower(c)
    ELSE IF c >= 48 /\ c <= 57 THEN 500 + c
    ELSE c

RECURSIVE ComparePrimary(_, _)
ComparePrimary(a, b) ==
    IF a = <<>> \/ b = <<>> THEN Sign(Len(a) - Len(b))
    ELSE IF Weight(Head(a)) # Weight(Head(b)) THEN Sign(Weight(Head(a)) - Weight(Head(b)))
    ELSE ComparePrimary(Tail(a), Tail(b))

\* between strings of equal primary weights: at the first difference the small letter
\* sorts before its capital
RECURSIVE CompareCase(_, _)
CompareCase(a, b) ==
    IF a = <<>> \/ b = <<>> THEN 0
    ELSE IF Head(a) # Head(b) THEN (IF Head(a) > Head(b) THEN -1 ELSE 1)
    ELSE CompareCase(Tail(a), Tail(b))

\* String.prototype.localeCompare in the default locale
LocaleCompare(a, b) ==
    IF ComparePrimary(a, b) # 0 THEN ComparePrimary(a, b) ELSE CompareCase(a, b)

\* a comparator that ignores sortOrder
CompareAscending(a, b) ==
    IF sortField = "title" THEN LocaleCompare(a.title, b.title)
    ELSE Sign(a.updatedAt - b.updatedAt)

\* the comparator of .sort(): comparison by sortField, negated unless sortOrder is 'asc'
Compare(a, b) ==
    LET comparison == IF sortField = "title" THEN LocaleCompare(a.title, b.title)
                      ELSE IF sortField = "updatedAt" THEN Sign(a.updatedAt - b.updatedAt)
                      ELSE 0
    IN IF sortOrder = "asc" THEN comparison ELSE 0 - comparison

\* Array.prototype.sort is stable: x goes after the last element that does not
\* compare greater than it
RECURSIVE SortedInsert(_, _)
SortedInsert(sorted, x) ==
    IF sorted = <<>> THEN <<x>>
    ELSE IF Compare(sorted[Len(sorted)], x) <= 0 THEN Append(sorted, x)
    ELSE Append(SortedInsert(SubSeq(sorted, 1, Len(sorted) - 1), x), sorted[Len(sorted)])

RECURSIVE Sorted(_)
Sorted(seq) ==
    IF seq = <<>> THEN <<>>
    ELSE SortedInsert(Sorted(SubSeq(seq, 1, Len(seq) - 1)), seq[Len(seq)])

\* what the list displays
filteredPrompts == Sorted(Filtered)

\* the search texts typed: "", "a", "B", "x"
Queries == {<<>>, <<97>>, <<66>>, <<120>>}

\* the provider checkboxes used
ListedProviders == {"openai", "anthropic", "google"}

\* the tags offered as checkboxes: new Set(prompts.flatMap(prompt => prompt.tags))
OfferedTags == UNION {Range(prompts[i].tags) : i \in 1..Len(prompts)}

\* prev.includes(x) ? prev.filter(y => y !== x) : [...prev, x]
Toggled(prev, x) ==
    IF x \in Range(prev) THEN SelectSeq(prev, LAMBDA y : y # x) ELSE Append(prev, x)

\* the controls are rendered with a non-empty list
ControlsShown == ListShown /\ prompts # <<>>

\* the search box: setSearchQuery(e.target.value)
SetSearchQuery ==
    /\ ControlsShown
    /\ \E q \in Queries : searchQuery' = q
    /\ UNCHANGED <<selectedTags, selectedProviders, sortField, sortOrder>>
    /\ UNCHANGED <<editing, forms, repo>>

ToggleTag ==
    /\ ControlsShown
    /\ \E tag \in OfferedTags : selectedTags' = Toggled(selectedTags, tag)
    /\ UNCHANGED <<searchQuery, selectedProviders, sortField, sortOrder>>
    /\ UNCHANGED <<editing, forms, repo>>

ToggleProvider ==
    /\ ControlsShown
    /\ \E provider \in ListedProviders :
         selectedProviders' = Toggled(selectedProviders, provider)
    /\ UNCHANGED <<searchQuery, selectedTags, sortField, sortOrder>>
    /\ UNCHANGED <<editing, forms, repo>>

\* toggleSort: the same field flips the order, another field starts ascending
ToggleSort ==
    /\ ControlsShown
    /\ \E field \in {"title", "updatedAt"} :
         IF sortField = field
         THEN /\ sortOrder' = IF sortOrder = "asc" THEN "desc" ELSE "asc"
              /\ UNCHANGED sortField
         ELSE /\ sortField' = field
              /\ sortOrder' = "asc"
    /\ UNCHANGED <<searchQuery, selectedTags, selectedProviders>>
    /\ UNCHANGED <<editing, forms, repo>>

\* ------------------------------------------------------------- provider and model selects
\* PROVIDERS[provider].models
Models ==
    [openai |-> <<"gpt-4-turbo", "gpt-4", "gpt-3.5-turbo", "gpt-3.5">>,
     anthropic |-> <<"claude-3-opus", "claude-3-sonnet", "claude-2.1", "claude-2">>,
     google |-> <<"gemini-pro", "gemini-ultra">>,
     xai |-> <<"grok-1">>,
     meta |-> <<"llama-2-70b", "llama-2-13b", "llama-2-7b">>,
     mistral |-> <<"mistral-large", "mistral-medium", "mistral-small">>]

Providers == DOMAIN Models

\* useState<Provider>('openai'), useState(PROVIDERS.openai.models[0]); no edit editor
FormDefaults ==
    /\ createProvider = "openai"
    /\ createModel = Models["openai"][1]
    /\ editProvider = "none"
    /\ editModel = "none"

\* the create editor's handleProviderChange: always the first model
CreateModelAfter(newProvider, model) == Models[newProvider][1]

\* a provider change that leaves the model as it is
ModelKept(newProvider, model) == model

\* the edit editor's handleProviderChange: the first model only if the current one is
\* not in the new provider's list
EditModelAfter(newProvider, model) ==
    IF model \notin Range(Models[newProvider]) THEN Models[newProvider][1] ELSE model

\* the create editor's provider select: onChange, handleProviderChange(e.target.value)
CreateProviderChange ==
    /\ isCreateModalOpen
    /\ \E newProvider \in Providers \ {createProvider} :
         /\ createProvider' = newProvider
         /\ createModel' = CreateModelAfter(newProvider, createModel)
    /\ UNCHANGED <<editProvider, editModel>>
    /\ UNCHANGED <<editing, listView, repo>>

\* the create editor's model select: setModel(e.target.value), over the provider's models
CreateModelChange ==
    /\ isCreateModalOpen
    /\ \E model \in Range(Models[createProvider]) \ {createModel} : createModel' = model
    /\ UNCHANGED <<createProvider, editProvider, editModel>>
    /\ UNCHANGED <<editing, listView, repo>>

\* the edit editor's provider select
EditProviderChange ==
    /\ EditorMounted
    /\ \E newProvider \in Providers \ {editProvider} :
         /\ editProvider' = newProvider
         /\ editModel' = EditModelAfter(newProvider, editModel)
    /\ UNCHANGED <<createProvider, createModel>>
    /\ UNCHANGED <<editing, listView, repo>>

\* the edit editor's model select
EditModelChange ==
    /\ EditorMounted
    /\ \E model \in Range(Models[editProvider]) \ {editModel} : editModel' = model
    /\ UNCHANGED <<createProvider, createModel, editProvider>>
    /\ UNCHANGED <<editing, listView, repo>>

\* ------------------------------------------------------------- the repository status
\* useState<RepoStatus>({ state: 'checking', isCreating: false })
Status(state) == [state |-> state, isCreating |-> state = "creating"]

NoAnswer == [n |-> 0, kind |-> "none", answer |-> "none"]

\* the messages setErrorMessage is called with: the store's, or the generic ones
StoreMessage == "Bad credentials"
CheckFailed == "Failed to check repository status"
CreateFailed == "Failed to create repository"

\* what a request to the store can be answered with beside success and not-found:
\* another status with a body that carries a message, another status with a body
\* without one, another status with a body that is not JSON, or no answer at all
Failures == {"message", "noMessage", "notJson", "net"}

\* the answers to the GET /repos/<username>/ai_prompts that probe c carries: the
\* store handles the request at some moment between its sending and the arrival of
\* the answer, so not-found if the repository was absent when c was sent, success
\* if it is there now
CheckAnswers(c) ==
    (IF c.sentWhileAbsent THEN {"notFound"} ELSE {})
        \cup (IF repoPresent THEN {"ok"} ELSE {})
        \cup Failures

\* the answers to POST /user/repos
CreateAnswers == (IF repoPresent THEN {} ELSE {"ok"}) \cup Failures

\* a check that tells success from failure only
CheckResultByOk(answer) ==
    IF answer = "ok" THEN [state |-> "exists", message |-> "kept"]
    ELSE [state |-> "error", message |-> CheckFailed]

\* checkRepository after the await: the state set and the message set ("kept": none)
CheckResult(answer) ==
    IF answer = "notFound" THEN [state |-> "not_exists", message |-> "kept"]
    ELSE IF answer = "ok" THEN [state |-> "exists", message |-> "kept"]
    ELSE IF answer = "message" THEN [state |-> "error", message |-> StoreMessage]
    ELSE [state |-> "error", message |-> CheckFailed]      \* data.message || ..., or catch

\* createRepository after the await
CreateResult(answer) ==
    IF answer = "ok" THEN [state |-> "exists", message |-> "kept"]
    ELSE IF answer = "message" THEN [state |-> "error", message |-> StoreMessage]
    ELSE [state |-> "error", message |-> CreateFailed]

\* the state of the Dashboard in which PromptsList is rendered: the check answered success
RepoChecked ==
    /\ repoStatus = Status("exists")
    /\ errorMessage = ""
    /\ repoPresent = TRUE
    /\ checks = EmptyBag
    /\ sessions = 1
    /\ answered = [n |-> 1, kind |-> "check", answer |-> "ok"]
    /\ failedSince = FALSE

\* the error line of the status section: rendered in state 'error' only
DisplayedError == IF repoStatus.state = "error" THEN errorMessage ELSE ""

\* the session changes: the effect runs checkRepository, which sets 'checking' and,
\* with an authenticated session, sends the probe; the earlier probes stay in flight
SessionChange ==
    /\ sessions < MaxSessions
    /\ sessions' = sessions + 1
    /\ repoStatus' = Status("checking")
    /\ \E authenticated \in BOOLEAN :
         checks' = IF authenticated
                   THEN checks (+) SetToBag({[kind |-> "check", n |-> sessions + 1,
                                              sentWhileAbsent |-> ~repoPresent]})
                   ELSE checks
    /\ failedSince' = FALSE
    /\ UNCHANGED <<errorMessage, repoPresent, answered>>
    /\ UNCHANGED <<editing, listView, forms>>

\* checkRepository: the answer to the probe
CheckAnswer ==
    /\ \E c \in {x \in BagToSet(checks) : x.kind = "check"} :
       \E answer \in CheckAnswers(c) :
         /\ c.kind = "check"
         /\ checks' = checks (-) SetToBag({c})
         /\ repoStatus' = Status(CheckResult(answer).state)
         /\ errorMessage' = IF CheckResult(answer).message = "kept" THEN errorMessage
                            ELSE CheckResult(answer).message
         /\ answered' = [n |-> answered.n + 1, kind |-> "check", answer |-> answer]
         /\ failedSince' = (failedSince \/ answer \in Failures)
    /\ UNCHANGED <<repoPresent, sessions>>
    /\ UNCHANGED <<editing, listView, forms>>

\* the "Create Repository" button (rendered in state 'not_exists', disabled while
\* isCreating): createRepository up to its await
CreateRepository ==
    /\ repoStatus.state = "not_exists" /\ ~repoStatus.isCreating
    /\ repoStatus' = Status("creating")
    /\ checks' = checks (+) SetToBag({[kind |-> "create", n |-> answered.n,
                                        sentWhileAbsent |-> ~repoPresent]})
    /\ UNCHANGED <<errorMessage, repoPresent, sessions, answered, failedSince>>
    /\ UNCHANGED <<editing, listView, forms>>

\* createRepository: the answer to the POST
CreateAnswer ==
    /\ \E c \in BagToSet(checks), answer \in CreateAnswers :
         /\ c.kind = "create"
         /\ checks' = checks (-) SetToBag({c})
         /\ repoPresent' = (repoPresent \/ answer = "ok")
         /\ repoStatus' = Status(CreateResult(answer).state)
         /\ errorMessage' = IF CreateResult(answer).message = "kept" THEN errorMessage
                            ELSE CreateResult(answer).message
         /\ answered' = [n |-> answered.n + 1, kind |-> "create", answer |-> answer]
         /\ failedSince' = (failedSince \/ answer \in Failures)
    /\ UNCHANGED sessions
    /\ UNCHANGED <<editing, listView, forms>>

\* ------------------------------------------------------------- the specification
\* the records earlier Creates of "A b!" left: one before page load, one at page load
FirstRecord == NewPrompt(TitleAb, CreateFields, <<>>, Epoch - 1)
SecondRecord == NewPrompt(TitleAb, CreateFields, <<FirstRecord>>, Epoch)

\* the repository at page load: without metadata.json, with an empty Index, or
\* as those Creates left it
NoIndexStore == [index |-> [exists |-> FALSE, prompts |-> <<>>], files |-> <<>>]
EmptyStore == [index |-> [exists |-> TRUE, prompts |-> <<>>], files |-> <<>>]
OneStore == [index |-> [exists |-> TRUE, prompts |-> <<FirstRecord>>],
             files |-> (FirstRecord.filename :> Utf8(BodyH))]
TwoStore == [index |-> [exists |-> TRUE, prompts |-> <<FirstRecord, SecondRecord>>],
             files |-> (FirstRecord.filename :> Utf8(BodyH))
                       @@ (SecondRecord.filename :> Utf8(BodyH))]

\* the state after the page has loaded over store st, for a run of scenario sc
Loaded(st, sc) ==
    /\ index = st.index
    /\ files = st.files
    /\ scen = sc
    /\ removed = {}
    /\ now = Epoch
    /\ faults = 0
    /\ started = 0
    /\ ed = EmptyBag
    /\ last = Idle
    /\ ft = SetToBag({FetchStart})
    /\ prompts = <<>>
    /\ isLoading = TRUE
    /\ listError = FALSE
    /\ selectedPrompt = NoPrompt
    /\ isCreateModalOpen = FALSE
    /\ showDeleteConfirm = FALSE
    /\ ListDefaults
    /\ FormDefaults
    /\ RepoChecked

\* runs of one operation, with any input, a failure and a tick
OneOp == [titles |-> {TitleAb, Titleab, TitleC, TitleEuro}, bodies |-> {BodyH, BodyEacute},
          ops |-> 1, faults |-> MaxFaults, ticks |-> MaxTicks]

\* runs of several operations, which may overlap, without failures
TwoOps == [titles |-> {TitleAb, Titleab}, bodies |-> {BodyH},
           ops |-> MaxOps, faults |-> 0, ticks |-> MaxTicks]

\* runs of several operations on the prompts there are, with a failure
Retry == [titles |-> {}, bodies |-> {BodyH},
          ops |-> MaxOps, faults |-> MaxFaults, ticks |-> 0]

Init ==
    \E st \in {NoIndexStore, EmptyStore, OneStore, TwoStore},
       sc \in {OneOp, TwoOps, Retry} :
        Loaded(st, sc)

Next ==
    \/ FetchGetIndex
    \/ FetchGetFiles
    \/ OpenCreate
    \/ CloseCreate
    \/ SelectPrompt
    \/ CloseEdit
    \/ StartCreate
    \/ CreateGetIndex
    \/ CreatePutIndex
    \/ CreatePutFile
    \/ StartUpdate
    \/ UpdateGetIndex
    \/ UpdateGetOld
    \/ UpdateDeleteOld
    \/ UpdatePutIndex
    \/ UpdateGetSha
    \/ UpdatePutFile
    \/ RequestDelete
    \/ CancelDelete
    \/ StartDelete
    \/ DeleteGetIndex
    \/ DeletePutIndex
    \/ DeleteGetFile
    \/ DeleteDeleteFile

Spec == Init /\ [][Next]_vars


\* ------------------------------------------------------------- the list, the selects and the status on their own
\* a run in which no editor operation is started
NoOps == [titles |-> {}, bodies |-> {}, ops |-> 0, faults |-> 0, ticks |-> 0]

\* the list and the store once the page has loaded these records and nothing is in flight
Parked(records) ==
    /\ index = [exists |-> TRUE, prompts |-> records]
    /\ files = [name \in {records[i].filename : i \in 1..Len(records)} |-> Utf8(BodyH)]
    /\ scen = NoOps
    /\ removed = {}
    /\ now = Epoch
    /\ faults = 0
    /\ started = 0
    /\ ed = EmptyBag
    /\ last = Idle
    /\ ft = EmptyBag
    /\ prompts = [i \in 1..Len(records) |-> WithContent(records[i], Utf8(BodyH))]
    /\ isLoading = FALSE
    /\ listError = FALSE
    /\ showDeleteConfirm = FALSE

\* a stored record with these fields
ListRecord(clock, title, description, tags, provider, updatedAt) ==
    [NewPrompt(title, CreateFields, <<>>, clock) EXCEPT
        !.description = description, !.tags = tags, !.provider = provider,
        !.model = Models[provider][1], !.updatedAt = updatedAt]

\* "Ab" / "q" / x, "ab" / "B" / y, "Ab" / "" / x y: two equal titles, two equal updatedAt
ListRecords ==
    {ListRecord(Epoch - 3, <<65, 98>>, <<113>>, << <<120>> >>, "openai", Epoch),
     ListRecord(Epoch - 2, <<97, 98>>, <<66>>, << <<121>> >>, "anthropic", Epoch - 1),
     ListRecord(Epoch - 1, <<65, 98>>, <<>>, << <<120>>, <<121>> >>, "openai", Epoch)}

\* the fetched collections: the non-empty arrangements of those records
Collections ==
    {c \in UNION {[1..n -> ListRecords] : n \in 1..MaxRecords} :
        \A i, j \in DOMAIN c : c[i] = c[j] => i = j}

ListInit ==
    /\ \E records \in Collections : Parked(records)
    /\ selectedPrompt = NoPrompt
    /\ isCreateModalOpen = FALSE
    /\ ListDefaults
    /\ FormDefaults
    /\ RepoChecked

ListNext ==
    \/ SetSearchQuery
    \/ ToggleTag
    \/ ToggleProvider
    \/ ToggleSort

ListSpec == ListInit /\ [][ListNext]_vars

\* the provider and model a stored record can carry: a provider with one of its
\* models, or no provider (read as 'openai') with any model
AllModels == UNION {Range(Models[p]) : p \in Providers}
StoredSelections ==
    {[provider |-> p, model |-> m] : p \in Providers, m \in AllModels}
        \cap {x \in [provider : Providers, model : AllModels] :
                 x.model \in Range(Models[x.provider]) \/ x.provider = "openai"}

\* the create editor is open with its defaults, or the edit editor is mounted on
\* a record: useState(prompt.provider || 'openai'), useState(prompt.model)
FormInit ==
    /\ Parked(<<FirstRecord>>)
    /\ ListDefaults
    /\ RepoChecked
    /\ createProvider = "openai"
    /\ createModel = Models["openai"][1]
    /\ \/ /\ isCreateModalOpen = TRUE
          /\ selectedPrompt = NoPrompt
          /\ editProvider = "none"
          /\ editModel = "none"
       \/ /\ isCreateModalOpen = FALSE
          /\ \E x \in StoredSelections :
               /\ selectedPrompt = [prompts[1] EXCEPT !.provider = x.provider,
                                                      !.model = x.model]
               /\ editProvider = x.provider
               /\ editModel = x.model

FormNext ==
    \/ CreateProviderChange
    \/ CreateModelChange
    \/ EditProviderChange
    \/ EditModelChange

FormSpec == FormInit /\ [][FormNext]_vars

\* the Dashboard mounts: 'checking', no probe sent before the session is there;
\* PromptsList is not rendered
RepoInit ==
    /\ Parked(<<>>)
    /\ selectedPrompt = NoPrompt
    /\ isCreateModalOpen = FALSE
    /\ ListDefaults
    /\ FormDefaults
    /\ repoStatus = Status("checking")
    /\ errorMessage = ""
    /\ repoPresent \in BOOLEAN
    /\ checks = EmptyBag
    /\ sessions = 0
    /\ answered = NoAnswer
    /\ failedSince = FALSE

RepoNext ==
    \/ SessionChange
    \/ CheckAnswer
    \/ CreateRepository
    \/ CreateAnswer

RepoSpec == RepoInit /\ [][RepoNext]_vars


\* ------------------------------------------------------------- properties
\* the invocations in flight and the one that returned last
Ops == InFlight \cup {last}

\* in this step the invocation s0 receives the answer it waits for
Steps(s0) == \A t \in BagToSet(ed') : t.n = s0.n => t.pc # s0.pc

\* in this step an invocation returns (as last')
Returns == last' # last

\* the positions of the Index records with this id
Positions(metadata, id) == {i \in 1..Len(metadata) : metadata[i].id = id}

\* C1: when a Create has run to completion with every request succeeding and no
\* other invocation in flight beside it, and nothing has been started since, a
\* fetch-all that reads the Index and the files as the Create left them, none of
\* its requests failing, sets a collection in which exactly one record carries the
\* new id, and that record's content is the submitted body
C1_CreateThenFetchAll ==
    [][\A f \in BagToSet(ft) :
         ( /\ f.pc = "getFiles" /\ ft' = ft (-) SetToBag({f})
           /\ faults' = faults
           /\ last.kind = "create" /\ last.ok /\ ~last.failed /\ ~last.raced
           /\ ed = EmptyBag /\ started = last.n
           /\ f.metadata = index.prompts )
         => /\ Cardinality(Positions(prompts', last.newId)) = 1
            /\ \A i \in Positions(prompts', last.newId) :
                   /\ "content" \in DOMAIN prompts'[i]
                   /\ prompts'[i].content = last.content
      ]_vars

\* C2: once the Index write of an Update has been rejected as stale against an
\* Update of the same id that read the Index under the same token, nothing of
\* the rejected writer's change is stored: its later steps leave the Index and
\* the files as they are
C2_SecondWriterStoresNothing ==
    [][\A s0 \in InFlight :
         (s0.lost /\ Steps(s0)) => (index' = index /\ files' = files)
      ]_vars

\* C3: in Create, Update and Delete, once a request has failed (rejected at the
\* network level, or answered with a non-success status) the invocation issues no
\* further request: it has returned, with the failure message set and without
\* the success callbacks
C3_FailureAborts ==
    \A s \in Ops : s.failed => (s.pc = "done" /\ s.error /\ ~s.ok)

\* C4: whenever no Create, Update or Delete is in progress, every record of the
\* Index has a filename at which a Content File exists.  Stated for the states in
\* which at most one operation has been started and no request of it has failed
C4_IndexedFilesExist ==
    (ed = EmptyBag /\ started <= 1 /\ ~last.failed) =>
        \A i \in 1..Len(index.prompts) : index.prompts[i].filename \in DOMAIN files

\* C9: no two records of the Index share a filename
C9_FilenamesDistinct ==
    \A i, j \in 1..Len(index.prompts) :
        index.prompts[i].filename = index.prompts[j].filename => i = j

\* C10: no two records of the Index have the same id, and no record of the
\* Index has an id that a Delete removed
C10_IdsUniqueNeverReused ==
    /\ \A i, j \in 1..Len(index.prompts) :
           index.prompts[i].id = index.prompts[j].id => i = j
    /\ \A i \in 1..Len(index.prompts) : index.prompts[i].id \notin removed

\* the postconditions of C5 but for updatedAt, for the returned Update last'
RenameStored ==
    LET old == last'.old[1]
    IN /\ old.filename \notin DOMAIN files'
       /\ last'.filename \in DOMAIN files'
       /\ files'[last'.filename] = Utf8(last'.content)
       /\ \E i \in Positions(index'.prompts, old.id) :
              /\ index'.prompts[i].filename = last'.filename
              /\ index'.prompts[i].createdAt = old.createdAt

\* an Update returns whose submitted title differs from the title of the Index
\* record it read, all its requests having succeeded
RenameReturns ==
    /\ Returns /\ last'.kind = "update"
    /\ last'.old # <<>> /\ last'.title # last'.old[1].title
    /\ last'.ok /\ ~last'.failed

\* C5: when an Update whose submitted title differs from the record's title
\* returns, all its requests having succeeded: no Content File exists at the
\* record's old filename, the Content File at its new filename holds the
\* submitted body, the record's id and createdAt are as before, and its
\* updatedAt is later than before.  Stated for the Indexes whose ids and
\* filenames are distinct (C9, C10), and with "later" read as "not earlier": the
\* clock may return the same value twice
C5_RenamePostconditions ==
    [][(RenameReturns /\ C9_FilenamesDistinct' /\ C10_IdsUniqueNeverReused')
       => /\ RenameStored
          /\ \A i \in Positions(index'.prompts, last'.old[1].id) :
                 index'.prompts[i].updatedAt >= last'.old[1].updatedAt
      ]_vars

\* the filenames the Index stores for this id
FilenamesOf(metadata, id) == {metadata[i].filename : i \in Positions(metadata, id)}

\* C6: an Update whose submitted title equals the title of the Index record
\* issues no delete request, its steps leave the filename stored for the record
\* as it is, and when it writes the body it writes it to the existing Content
\* File at that filename, with that file's current sha
C6_SameTitleInPlace ==
    [][\A s0 \in InFlight :
         (s0.kind = "update" /\ s0.old # <<>> /\ s0.title = s0.old[1].title)
         => /\ s0.pc \notin {"u_getOld", "u_delOld"}
            /\ Steps(s0) =>
                 /\ FilenamesOf(index'.prompts, s0.prompt.id)
                        = FilenamesOf(index.prompts, s0.prompt.id)
                 /\ files' # files =>
                      /\ s0.filename = s0.old[1].filename
                      /\ s0.filename \in DOMAIN files
                      /\ s0.fileSha = ShaOf(files[s0.filename])
                      /\ DOMAIN files' = DOMAIN files
      ]_vars

\* C7: when a Delete of a record that is in the Index returns, all its requests
\* having succeeded, the Index has no record with that id and no Content File
\* exists at a filename the Index recorded for that id
C7_DeleteRemovesBoth ==
    [][(Returns /\ last'.kind = "delete" /\ last'.old # <<>>
          /\ last'.ok /\ ~last'.failed)
       => /\ Positions(index'.prompts, last'.prompt.id) = {}
          /\ \A i \in 1..Len(last'.old) : last'.old[i].filename \notin DOMAIN files'
      ]_vars

\* a Delete that found no record with its id in the Index it read
AbsentDelete(s) == s.kind = "delete" /\ s.pc # "d_getIndex" /\ s.old = <<>>

SecondCreateReads(s0) ==
    /\ s0.kind = "create" /\ s0.pc = "c_getIndex" /\ Steps(s0) /\ ~s0.raced
    /\ last.kind = "create" /\ last.wrote /\ ~last.raced /\ s0.n = last.n + 1
    /\ index.prompts # <<>>
    /\ index.prompts[Len(index.prompts)].id = last.newId
    /\ index.prompts[Len(index.prompts)].filename = last.filename
    /\ BaseFilename(s0.title) = BaseFilename(last.title)

\* C9 as the code has it: of two Creates performed one after the other, nothing
\* else in flight beside them, whose titles normalise to the same base name, the
\* second derives a filename that differs from the first's, also at the same
\* clock value
C9_ConsecutiveCreatesDiffer ==
    [][\A s0 \in InFlight :
         SecondCreateReads(s0)
         => \A t \in BagToSet(ed') :
                (t.n = s0.n /\ t.pc = "c_putIndex") => t.filename # last.filename
      ]_vars

\* the second of two such Creates has derived its filename at the clock value of
\* the first, from another title with the same base name
C9_SecondCreateSameClock ==
    \E t \in InFlight :
        /\ t.kind = "create" /\ t.pc = "c_putIndex" /\ ~t.raced
        /\ last.kind = "create" /\ last.wrote /\ ~last.raced /\ t.n = last.n + 1
        /\ t.title # last.title
        /\ BaseFilename(t.title) = BaseFilename(last.title)
        /\ Len(t.metadata) >= 2
        /\ t.metadata[Len(t.metadata) - 1].id = last.newId
        /\ t.metadata[Len(t.metadata)].createdAt
               = t.metadata[Len(t.metadata) - 1].createdAt

\* C11: a fetch-all that is answered not-found for the Index file sets the empty
\* collection and sets no error message
C11_AbsentIndexIsEmpty ==
    [][\A f \in BagToSet(ft) :
         ( /\ f.pc = "getIndex" /\ ft' = ft (-) SetToBag({f})
           /\ ~index.exists /\ faults' = faults )
         => (prompts' = <<>> /\ ~listError')
      ]_vars

\* r without its content field
Metadata(r) == [k \in DOMAIN r \ {"content"} |-> r[k]]

\* in this step the fetch-all f receives the answers to its content reads
ContentReadsAnswered(f) == f.pc = "getFiles" /\ ft' = ft (-) SetToBag({f})

\* the entries of the collection set in this step are the Index records f read, in
\* their order, with or without a content field
OneEntryPerRecord(f) ==
    /\ Len(prompts') = Len(f.metadata)
    /\ \A i \in 1..Len(f.metadata) : Metadata(prompts'[i]) = f.metadata[i]

\* C12: a fetch-all whose Index read succeeded sets one entry per Index record, in
\* Index order; an entry whose content read fails carries the metadata without a
\* body, every other entry carries its body (the text its Content File encodes), and
\* a failed content read sets no error message
C12_PartialResults ==
    [][\A f \in BagToSet(ft) :
         ContentReadsAnswered(f)
         => /\ OneEntryPerRecord(f)
            /\ listError' = listError
            /\ \A i \in 1..Len(f.metadata) :
                 IF f.metadata[i].filename \notin DOMAIN files
                 THEN "content" \notin DOMAIN prompts'[i]
                 ELSE \/ /\ "content" \in DOMAIN prompts'[i]
                         /\ Utf8(prompts'[i].content) = files[f.metadata[i].filename]
                      \/ /\ "content" \notin DOMAIN prompts'[i]
                         /\ faults' # faults
      ]_vars

\* in this step the Dashboard receives the answer to an existence check
CheckAnswered == answered' # answered /\ answered'.kind = "check"

\* C13: the existence check ends in 'not_exists', setting and showing no error
\* message, when the store answers not-found; in 'exists' when it answers success;
\* and in 'error' with a message shown for any other status and for a network
\* failure
C13_CheckOutcomes ==
    [][CheckAnswered
       => /\ answered'.answer = "notFound"
               => /\ repoStatus'.state = "not_exists"
                  /\ errorMessage' = errorMessage
                  /\ DisplayedError' = ""
          /\ answered'.answer = "ok" => repoStatus'.state = "exists"
          /\ answered'.answer \in Failures
               => /\ repoStatus'.state = "error"
                  /\ DisplayedError' # ""
      ]_vars

\* a check was answered not-found after an earlier request had failed and left its
\* message behind: the state is 'not_exists' and no message is shown
C13_NotFoundAfterFailure ==
    /\ answered.kind = "check" /\ answered.answer = "notFound"
    /\ repoStatus.state = "not_exists"
    /\ errorMessage # ""
    /\ DisplayedError = ""

\* sub occurs in s at some offset, letters compared without regard to case
OccursIgnoringCase(sub, s) ==
    \E offset \in 0..(Len(s) - Len(sub)) :
        \A k \in 1..Len(sub) : ToLower(s[offset + k]) = ToLower(sub[k])

\* the record passes the search, the tag and the provider filter
PassesAllFilters(r) ==
    /\ \/ searchQuery = <<>>
       \/ OccursIgnoringCase(searchQuery, r.title)
       \/ OccursIgnoringCase(searchQuery, r.description)
       \/ \E tag \in Range(r.tags) : OccursIgnoringCase(searchQuery, tag)
    /\ \/ Range(selectedTags) = {}
       \/ Range(r.tags) \cap Range(selectedTags) # {}
    /\ \/ Range(selectedProviders) = {}
       \/ r.provider \in Range(selectedProviders)

\* how many times x occurs in seq
Occurrences(seq, x) == Cardinality({i \in 1..Len(seq) : seq[i] = x})

\* C14: the displayed records are exactly the records of the collection that pass
\* the search filter and the tag filter and the provider filter, each once
C14_DisplayedPassAllFilters ==
    /\ Range(filteredPrompts) \subseteq Range(prompts)
    /\ \A r \in Range(prompts) :
         Occurrences(filteredPrompts, r) =
             IF PassesAllFilters(r) THEN Occurrences(prompts, r) ELSE 0

\* the three filters are all set; one record passes them, one fails the search only,
\* one fails the tag filter only and one record with several tags has one selected
C14_AllFiltersActive ==
    /\ searchQuery # <<>> /\ selectedTags # <<>> /\ selectedProviders # <<>>
    /\ Len(filteredPrompts) >= 1
    /\ Len(filteredPrompts) < Len(prompts)
    /\ \E r \in Range(filteredPrompts) :
         Len(r.tags) > 1 /\ ~(Range(r.tags) \subseteq Range(selectedTags))
    /\ \E r \in Range(prompts) :
         /\ r.provider \in Range(selectedProviders)
         /\ Range(r.tags) \cap Range(selectedTags) = {}

\* the place of a record in the fetched collection
PlaceInCollection(r) == CHOOSE i \in 1..Len(prompts) : prompts[i] = r

\* a and b compare equal on the sort field
EqualOnSortField(a, b) ==
    IF sortField = "title" THEN LocaleCompare(a.title, b.title) = 0
    ELSE a.updatedAt = b.updatedAt

\* a may stand before b under the sort field and direction
InSortOrder(a, b) ==
    IF sortField = "title"
    THEN IF sortOrder = "asc" THEN LocaleCompare(a.title, b.title) <= 0
         ELSE LocaleCompare(a.title, b.title) >= 0
    ELSE IF sortOrder = "asc" THEN a.updatedAt <= b.updatedAt
         ELSE a.updatedAt >= b.updatedAt

\* C15: the displayed list is a permutation of the filtered records, ordered by the
\* sort field and direction; with last-updated descending its first record has the
\* greatest updatedAt; records equal on the sort field keep the order they have in
\* the fetched collection, in both directions
C15_SortedStablePermutation ==
    /\ Len(filteredPrompts) = Len(Filtered)
    /\ \A r \in Range(Filtered) \cup Range(filteredPrompts) :
         Occurrences(filteredPrompts, r) = Occurrences(Filtered, r)
    /\ \A i, j \in 1..Len(filteredPrompts) :
         i < j => /\ InSortOrder(filteredPrompts[i], filteredPrompts[j])
                  /\ EqualOnSortField(filteredPrompts[i], filteredPrompts[j])
                       => PlaceInCollection(filteredPrompts[i])
                              < PlaceInCollection(filteredPrompts[j])
    /\ (sortField = "updatedAt" /\ sortOrder = "desc" /\ filteredPrompts # <<>>)
         => \A r \in Range(filteredPrompts) : filteredPrompts[1].updatedAt >= r.updatedAt

\* descending by last-updated, three records left by a search: the oldest was fetched
\* first and is displayed last, the two others are equal on updatedAt
C15_DescendingWithTie ==
    /\ sortField = "updatedAt" /\ sortOrder = "desc"
    /\ searchQuery # <<>>
    /\ Len(filteredPrompts) = 3
    /\ filteredPrompts[3] = prompts[1]
    /\ filteredPrompts[1].updatedAt = filteredPrompts[2].updatedAt
    /\ filteredPrompts[2].updatedAt > filteredPrompts[3].updatedAt

\* C16: after a provider change in either editor the selected model is in the new
\* provider's model list: the create editor selects the first listed model, the edit
\* editor keeps the current model when the new list has it and selects the first
\* listed model otherwise
C16_ModelOfNewProvider ==
    [][ /\ createProvider' # createProvider
          => /\ createModel' \in Range(Models[createProvider'])
             /\ createModel' = Models[createProvider'][1]
        /\ editProvider' # editProvider
          => /\ editModel' \in Range(Models[editProvider'])
             /\ editModel \in Range(Models[editProvider']) => editModel' = editModel
             /\ editModel \notin Range(Models[editProvider'])
                  => editModel' = Models[editProvider'][1]
      ]_vars

\* the edit editor was opened on a record that stores no provider and a model of
\* 'anthropic' that is not its first; the provider was changed to 'anthropic' and
\* the model is still that one
C16_EditKeptValidModel ==
    /\ EditorMounted
    /\ selectedPrompt.provider = "openai"
    /\ selectedPrompt.model = Models["anthropic"][4]
    /\ editProvider = "anthropic"
    /\ editModel = selectedPrompt.model

\* in this step a Delete is started
DeleteStarted ==
    \E t \in BagToSet(ed') : t.kind = "delete" /\ t.pc = "d_getIndex" /\ t.n = started + 1

\* in this step the Delete s, started from the editor that is mounted, returns
DeleteFinished(s) == s.kind = "delete" /\ s.shown /\ ~BagIn(s, ed') /\ last' # last

\* C17: a Delete is started only when showDeleteConfirm is true, and when the Delete
\* returns, with success or with an error, showDeleteConfirm of its editor is false
C17_DeleteNeedsConfirmation ==
    [][ /\ DeleteStarted => showDeleteConfirm
        /\ \A s \in InFlight : DeleteFinished(s) => ~showDeleteConfirm'
      ]_vars

\* a Delete failed and left its editor mounted with the confirmation cleared; the
\* user asked for confirmation again and a second Delete is in flight
C17_SecondDeleteAfterFailure ==
    /\ EditorMounted
    /\ last.kind = "delete" /\ last.error /\ ~last.raced
    /\ \E t \in InFlight :
         t.kind = "delete" /\ t.shown /\ ~t.raced /\ t.n = last.n + 1

\* the operations in flight that were started from the edit editor that is mounted
OwnOfEditEditor == {s \in InFlight : s.shown}

\* the operations in flight that were started from the create editor
OwnOfCreateEditor == {s \in InFlight : s.kind = "create"}

\* C18: while an operation started from an editor is in flight that editor starts no
\* other: neither editor has two of its own operations in flight
C18_OneOperationPerEditor ==
    /\ \A s \in OwnOfEditEditor \cup OwnOfCreateEditor : CopiesIn(s, ed) = 1
    /\ Cardinality(OwnOfEditEditor) <= 1
    /\ Cardinality(OwnOfCreateEditor) <= 1

\* an Update of the mounted edit editor is in flight and the confirmation dialog is
\* open: the budget of operations would allow a Delete or another Update to start,
\* only isSaving holds them back
C18_SavingWithDialogOpen ==
    /\ EditorMounted /\ showDeleteConfirm
    /\ \E s \in InFlight : s.kind = "update" /\ s.shown
    /\ started < scen.ops
    /\ BagCardinality(ed) < MaxInFlight

\* in this step the invocation s receives the answer to the request it waits for
Answered(s) == \A t \in BagToSet(ed') : t.n = s.n => t.pc # s.pc

\* in this step the store answers the Index write of the Create s, whose copy of the
\* Index another writer has replaced since s read it
StaleIndexWriteAnswered(s) ==
    /\ s.kind = "create" /\ s.pc = "c_putIndex"
    /\ index.exists /\ s.sha # ShaOf(index.prompts)
    /\ Answered(s)
    /\ faults' = faults

\* C19: a Create whose Index write meets an Index that another writer has changed
\* since the Create read it fails as a whole: the Index is not written, the Create
\* returns with its failure message and writes no Content File
C19_StaleCreateFails ==
    [][\A s \in InFlight :
         StaleIndexWriteAnswered(s)
         => /\ index' = index
            /\ files' = files
            /\ last' # last /\ last'.n = s.n /\ last'.error /\ ~last'.ok
      ]_vars

\* the Update s has chosen a new filename for its record
Renames(s) ==
    /\ s.kind = "update"
    /\ s.pc \in {"u_getOld", "u_delOld", "u_putIndex", "u_putFile"}
    /\ s.filename # s.prompt.filename

\* the Index held by the store has a record of this filename
IndexNames(idx, filename) ==
    \E i \in 1..Len(idx.prompts) : idx.prompts[i].filename = filename

\* C20 as stated: during an Update that renames a record, the Index never names the
\* record's new filename while no Content File exists at that filename
C20_NewNameHasFile ==
    \A s \in InFlight :
        (Renames(s) /\ IndexNames(index, s.filename)) => s.filename \in DOMAIN files

\* in this step the store applies the Index write of the renaming Update s
RenameIndexWritten(s) ==
    /\ Renames(s) /\ s.pc = "u_putIndex"
    /\ ~BagIn(s, ed')
    /\ index' # index

\* C20, amended: a renaming Update writes the Index before the new Content File: the
\* step that applies its Index write makes the Index name the new filename, writes
\* no file, and leaves the Update with its file write still to send
C20_IndexWrittenBeforeFile ==
    [][\A s \in InFlight :
         RenameIndexWritten(s)
         => /\ \E i \in 1..Len(index'.prompts) :
                 /\ index'.prompts[i].id = s.prompt.id
                 /\ index'.prompts[i].filename = s.filename
            /\ files' = files
            /\ \E t \in BagToSet(ed') :
                 t.n = s.n /\ t.pc = "u_putFile" /\ t.filename = s.filename
      ]_vars

\* a renaming Update has had its Index write applied and has not yet written its
\* file: the Index names the new filename and no Content File exists there
C20_IndexNamesMissingFile ==
    \E s \in InFlight :
        /\ Renames(s) /\ s.pc = "u_putFile" /\ s.wrote
        /\ \E i \in 1..Len(index.prompts) :
             /\ index.prompts[i].id = s.prompt.id
             /\ index.prompts[i].filename = s.filename
        /\ s.filename \notin DOMAIN files

\* in this step the store removes a Content File at the request of the Delete s
DeleteRemovesFile(s) ==
    /\ s.kind = "delete" /\ s.pc = "d_delFile"
    /\ ~BagIn(s, ed')
    /\ files' # files

\* the Index held by the store lists a record with this id
IndexLists(id) == \E i \in 1..Len(index.prompts) : index.prompts[i].id = id

\* C21: a Delete removes the Content File of its record only when the Index held by
\* the store no longer lists that record
C21_FileRemovedAfterIndex ==
    [][\A s \in InFlight : DeleteRemovesFile(s) => ~IndexLists(s.prompt.id)]_vars

\* u is an Update and d a Delete of another record, and both read the same Index
\* before either wrote it
OverlappingUpdateAndDelete(u, d) ==
    /\ u.kind = "update" /\ d.kind = "delete"
    /\ u.prompt.id # d.prompt.id
    /\ u.sha # NoSha /\ u.sha = d.sha
    /\ u.old # <<>> /\ d.old # <<>>

\* the store after the Update u and the Delete d, run one after the other: the record
\* of u carries the submitted values and has its Content File, the record of d and
\* its Content File are gone
AsOneAfterTheOther(u, d, idx, fls) ==
    /\ \A i \in 1..Len(idx.prompts) : idx.prompts[i].id # d.prompt.id
    /\ d.prompt.filename \notin DOMAIN fls
    /\ \E i \in 1..Len(idx.prompts) :
         /\ idx.prompts[i].id = u.prompt.id
         /\ idx.prompts[i].title = u.title
         /\ idx.prompts[i].description = u.fields.description
         /\ idx.prompts[i].tags = u.fields.tags
         /\ idx.prompts[i].filename \in DOMAIN fls
         /\ fls[idx.prompts[i].filename] = Utf8(u.content)

\* C22: when an Update of one record and a Delete of another overlap and no request
\* fails, then once both have finished the store is as if the one had run after the
\* other
C22_OverlapAsSequential ==
    [][\A s \in InFlight :
         ( /\ ~BagIn(s, ed') /\ last' # last /\ ed' = EmptyBag
           /\ faults' = 0
           /\ \/ OverlappingUpdateAndDelete(last', last)
              \/ OverlappingUpdateAndDelete(last, last') )
         => \/ AsOneAfterTheOther(last', last, index', files')
            \/ AsOneAfterTheOther(last, last', index', files')
      ]_vars

\* in this step the Update s reads an Index that has no record of its id
UpdateFindsNoRecord(s) ==
    /\ s.kind = "update" /\ s.pc = "u_getIndex"
    /\ Answered(s)
    /\ faults' = faults
    /\ index.exists
    /\ FindIndex(index.prompts, s.prompt.id) = 0

\* C23: an Update for an id that is not in the Index sends no write and no delete (it
\* returns after the Index read, the Index and the Content Files are unchanged) and
\* is not reported as a successful update
C23_AbsentUpdateReported ==
    [][\A s \in InFlight :
         UpdateFindsNoRecord(s)
         => /\ last' # last /\ last'.n = s.n
            /\ index' = index /\ files' = files
            /\ ~last'.ok
      ]_vars

\* in this step the Content File write of the Create s, whose Index write was
\* applied, is answered without having been applied
CreateFileWriteFails(s) ==
    /\ s.kind = "create" /\ s.pc = "c_putFile" /\ s.wrote
    /\ Answered(s)
    /\ files' = files

\* C24: a Create whose Content File write fails after its Index write was applied
\* sends no further write: it returns, the Index is not written again, and (as far
\* as no other writer has replaced the Index) the Index keeps the new record while
\* no Content File exists at the record's filename
C24_NoRollback ==
    [][\A s \in InFlight :
         CreateFileWriteFails(s)
         => /\ last' # last /\ last'.n = s.n
            /\ index' = index
            /\ index.prompts = s.metadata
                 => /\ \E i \in 1..Len(index'.prompts) :
                         /\ index'.prompts[i].id = s.newId
                         /\ index'.prompts[i].filename = s.filename
                    /\ s.filename \notin DOMAIN files'
      ]_vars

\* the fields of a record that an Update may change
MutableFields ==
    {"title", "description", "tags", "provider", "model", "filename", "updatedAt"}

\* record b is record a but for its mutable fields
SameButMutable(a, b) ==
    /\ DOMAIN a = DOMAIN b
    /\ \A k \in DOMAIN a \ MutableFields : a[k] = b[k]

\* C25: an Index write of an Update leaves the Index with the same length and order;
\* one record with the Update's id keeps its position and differs at most in title,
\* description, tags, provider, model, filename and updatedAt; every other record
\* is unchanged
C25_UpdateChangesOneRecord ==
    [][\A s \in InFlight :
         (s.kind = "update" /\ Answered(s) /\ index' # index)
         => /\ index'.exists = index.exists
            /\ Len(index'.prompts) = Len(index.prompts)
            /\ \E i \in 1..Len(index.prompts) :
                 /\ index.prompts[i].id = s.prompt.id
                 /\ SameButMutable(index.prompts[i], index'.prompts[i])
                 /\ \A j \in 1..Len(index.prompts) :
                      j # i => index'.prompts[j] = index.prompts[j]
      ]_vars

\* a renaming Update of the second of two records has written the Index: the first
\* record is as it was, the second carries the new title and filename under its id
\* and createdAt
C25_SecondRecordRenamed ==
    /\ last.kind = "update" /\ last.wrote /\ last.ok /\ ~last.raced
    /\ last.title # last.prompt.title
    /\ Len(index.prompts) = 2
    /\ index.prompts[1] = FirstRecord
    /\ index.prompts[2].id = SecondRecord.id
    /\ index.prompts[2].id = last.prompt.id
    /\ index.prompts[2].createdAt = SecondRecord.createdAt
    /\ index.prompts[2].title = last.title
    /\ index.prompts[2].filename # SecondRecord.filename

\* in this step the Dashboard receives the answer `answered'`, a failure
FailureAnswered == answered' # answered /\ answered'.answer \in Failures

\* in this step a check or a creation request is sent
RequestIssued == \E c \in BagToSet(checks') : CopiesIn(c, checks') > CopiesIn(c, checks)

\* C26: a failed check or creation ends in 'error' showing the store's message when
\* it supplies one and the generic message of the request otherwise, and after a
\* failure no check or creation request is sent unless the session changes
C26_FailureIsFinal ==
    [][ /\ FailureAnswered
          => /\ repoStatus'.state = "error"
             /\ DisplayedError' = IF answered'.answer = "message" THEN StoreMessage
                                  ELSE IF answered'.kind = "check" THEN CheckFailed
                                  ELSE CreateFailed
        /\ (failedSince /\ RequestIssued) => sessions' # sessions
      ]_vars

\* what a fetch-all of the store as it is, with every request answered, sets
StoreCollection(idx, fls) ==
    [i \in 1..Len(idx.prompts) |->
        IF idx.prompts[i].filename \in DOMAIN fls
        THEN WithContent(idx.prompts[i], fls[idx.prompts[i].filename])
        ELSE idx.prompts[i]]

\* in this step a fetch-all returns
FetchReturned == \E f \in BagToSet(ft) : CopiesIn(f, ft') < CopiesIn(f, ft)

\* C27: the in-memory collection changes only when a fetch-all returns, and once an
\* operation has reported success and no operation and no fetch-all is in flight (no
\* request having failed), the collection is what the store holds: its Index records
\* with their bodies
C27_CollectionIsCurrent ==
    [][ /\ prompts' # prompts => FetchReturned
        /\ (last'.ok /\ ed' = EmptyBag /\ ft' = EmptyBag /\ faults' = 0)
             => prompts' = StoreCollection(index', files')
      ]_vars

\* the filenames the records of the stored Index name
NamedFiles == {index.prompts[i].filename : i \in 1..Len(index.prompts)}

\* no operation is in flight, no request has failed, and the operation that returned
\* last ran to its end without another in flight beside it
RanOneAtATime ==
    /\ ed = EmptyBag
    /\ faults = 0
    /\ last.kind # "none" /\ last.ok /\ ~last.raced

\* the ids of the stored Index are distinct and no Delete has removed a record
IdsAreFresh ==
    /\ \A i, j \in 1..Len(index.prompts) :
         index.prompts[i].id = index.prompts[j].id => i = j
    /\ removed = {}

\* C28: after operations issued one at a time, none of whose requests failed, the
\* Content Files in the store are exactly the files the Index records name (stated
\* for the runs that end with an Update and in which no id was assigned twice)
C28_NoOrphanFiles ==
    (RanOneAtATime /\ IdsAreFresh /\ last.kind = "update")
    => DOMAIN files = NamedFiles

\* C29: once a creation request has succeeded and the state is 'exists', the state
\* never becomes 'not_exists' again, whenever the answers of the existence checks
\* that were sent before arrive.  (The repository is there from the start or from
\* the step at which a creation succeeds, which sets 'exists'; no check sent while
\* it is there can be answered not-found.)
C29_ExistsIsStable ==
    [][(repoPresent /\ repoStatus.state # "not_exists")
          => repoStatus'.state # "not_exists"]_vars

\* ------------------------------------------------------------- termination
\* the runs in which every request is answered or fails: the answer of some request
\* of a handler arrives again and again as long as one can arrive, and so does the
\* answer of some request of fetchPrompts (the handlers await nothing but fetch and
\* response.json(); a step that starts fetchPrompts waits in the model while
\* MaxFetches calls are in flight, which is why the condition is the strong one).
\* What the user does is under no condition of this kind
LiveInit == Loaded(OneStore, OneOp) \/ Loaded(OneStore, Retry)

\* the answer of a request of fetchPrompts arrives
FetchAnswer == FetchGetIndex \/ FetchGetFiles

\* the answer of a request of handleSubmit or handleDelete arrives
HandlerAnswer ==
    \/ CreateGetIndex \/ CreatePutIndex \/ CreatePutFile
    \/ UpdateGetIndex \/ UpdateGetOld \/ UpdateDeleteOld
    \/ UpdatePutIndex \/ UpdateGetSha \/ UpdatePutFile
    \/ DeleteGetIndex \/ DeletePutIndex \/ DeleteGetFile \/ DeleteDeleteFile

EveryRequestAnswers == SF_vars(FetchAnswer) /\ SF_vars(HandlerAnswer)

\* onClose of the editor while a handler is in flight, when the fetchPrompts it starts
\* leaves room under MaxFetches for those the handler starts when it returns
LiveCloseEdit == CloseEdit /\ (ed # EmptyBag => ft = EmptyBag)

LiveNext ==
    \/ FetchGetIndex
    \/ FetchGetFiles
    \/ OpenCreate
    \/ CloseCreate
    \/ SelectPrompt
    \/ LiveCloseEdit
    \/ StartCreate
    \/ CreateGetIndex
    \/ CreatePutIndex
    \/ CreatePutFile
    \/ StartUpdate
    \/ UpdateGetIndex
    \/ UpdateGetOld
    \/ UpdateDeleteOld
    \/ UpdatePutIndex
    \/ UpdateGetSha
    \/ UpdatePutFile
    \/ RequestDelete
    \/ CancelDelete
    \/ StartDelete
    \/ DeleteGetIndex
    \/ DeletePutIndex
    \/ DeleteGetFile
    \/ DeleteDeleteFile

LiveSpec == LiveInit /\ [][LiveNext]_vars /\ EveryRequestAnswers

\* the n-th handler invocation of the run has not returned
Running(n) == \E s \in InFlight : s.n = n

\* C30: when every request is answered or fails, no started Create, Update or
\* Delete stays in flight forever, isSaving of CreatePromptModal and of the mounted
\* ViewEditPromptModal does not stay set forever, and isLoading of the list does
\* not stay set forever
C30_EveryOperationFinishes ==
    /\ \A n \in 1..MaxOps : []<>~Running(n)
    /\ []<>~CreateSaving
    /\ []<>~EditSaving
    /\ []<>~isLoading

\* two operations have run, the second has returned after a failed request, and
\* nothing is in flight or loading
C30_AllReturnedAfterFailure ==
    /\ started = MaxOps /\ last.n = MaxOps
    /\ last.failed /\ last.error
    /\ ed = EmptyBag /\ ft = EmptyBag
    /\ ~isLoading

====
